---- MODULE Spec2Model ----
(***************************************************************************)
(* Model of analyze_remaster_patterns.py: the script loads the rule        *)
(* catalog from a JSON file, appends the candidate rules whose key is not  *)
(* among the catalog's track_name.find strings, bumps the minor version,   *)
(* rewrites the description and saves the catalog back.                    *)
(*                                                                         *)
(* Python dicts are functions whose DOMAIN is the set of keys present;     *)
(* Python lists are sequences; a version string is a sequence of           *)
(* one-character strings, so that split, int and str are computed.         *)
(***************************************************************************)
EXTENDS Integers, Sequences, FiniteSets, TLC

VARIABLES
    file,                \* content of app/assets/default_remaster_rules.json
    additional_patterns, \* the candidate list
    current_rules,       \* local of analyze_and_update
    existing_patterns,   \* local of analyze_and_update
    idx,                 \* position of the for loop over additional_patterns
    new_rules_added,     \* local of analyze_and_update
    added_names,         \* names printed by "Added new rule: ..."
    pc,                  \* position in analyze_and_update
    loaded,              \* history: the document load_current_rules returned
    added_idx,           \* history: indices of the candidates appended
    loads,               \* history: calls of load_current_rules in this run
    saves,               \* history: calls of save_updated_rules in this run
    run                  \* history: number of the current invocation

vars == <<file, additional_patterns, current_rules, existing_patterns, idx,
          new_rules_added, added_names, pc, loaded, added_idx, loads, saves,
          run>>

-----------------------------------------------------------------------------
(* Bounds of the model *)

MaxRules == 2
MaxCands == 2
MaxVerLen == 4
MaxRuns == 2

-----------------------------------------------------------------------------
(* Python values *)

None == [py_none |-> TRUE]

NoFile == [no_file |-> TRUE]

EmptyDoc == <<>>

\* Python truthiness of what load_current_rules returns: None and {} are falsy
Falsy(v) == v = None \/ DOMAIN v = {}

\* d[k] = v on a dict
DictSet(d, k, v) == [y \in DOMAIN d \cup {k} |-> IF y = k THEN v ELSE d[y]]

\* d.get(k, default)
DictGet(d, k, default) == IF k \in DOMAIN d THEN d[k] ELSE default

Range(s) == {s[k] : k \in 1..Len(s)}

SeqsUpTo(S, n) == UNION {[1..k -> S] : k \in 0..n}

-----------------------------------------------------------------------------
(* Strings as character sequences: split, int, str, join *)

Digits == <<"0", "1", "2", "3", "4", "5", "6", "7", "8", "9">>

IsDigit(c) == \E d \in 1..10 : Digits[d] = c

DigitVal(c) == (CHOOSE d \in 1..10 : Digits[d] = c) - 1

RECURSIVE SplitDot(_)
\* s.split('.')
SplitDot(s) ==
    IF \A k \in 1..Len(s) : s[k] # "."
    THEN <<s>>
    ELSE LET p == CHOOSE k \in 1..Len(s) :
                      s[k] = "." /\ \A j \in 1..(k - 1) : s[j] # "."
         IN  <<SubSeq(s, 1, p - 1)>> \o SplitDot(SubSeq(s, p + 1, Len(s)))

RECURSIVE JoinDot(_)
\* '.'.join(parts)
JoinDot(parts) ==
    IF Len(parts) = 0 THEN <<>>
    ELSE IF Len(parts) = 1 THEN parts[1]
    ELSE parts[1] \o <<".">> \o JoinDot(Tail(parts))

AllDigits(s) == Len(s) > 0 /\ \A k \in 1..Len(s) : IsDigit(s[k])

\* int(s) succeeds: an optional sign and at least one decimal digit (the
\* blanks and underscores int() also accepts are not among VerChars)
IsIntLiteral(s) ==
    \/ AllDigits(s)
    \/ Len(s) > 1 /\ s[1] \in {"-", "+"} /\ AllDigits(Tail(s))

RECURSIVE DigitsVal(_)
DigitsVal(s) ==
    IF Len(s) = 0 THEN 0
    ELSE 10 * DigitsVal(SubSeq(s, 1, Len(s) - 1)) + DigitVal(s[Len(s)])

\* int(s), for s with IsIntLiteral(s)
ParseInt(s) ==
    IF s[1] = "-" THEN 0 - DigitsVal(Tail(s))
    ELSE IF s[1] = "+" THEN DigitsVal(Tail(s))
    ELSE DigitsVal(s)

RECURSIVE NatToStr(_)
NatToStr(n) ==
    IF n < 10 THEN <<Digits[n + 1]>>
    ELSE NatToStr(n \div 10) \o <<Digits[(n % 10) + 1]>>

\* str(n)
IntToStr(n) == IF n < 0 THEN <<"-">> \o NatToStr(0 - n) ELSE NatToStr(n)

-----------------------------------------------------------------------------
(* The merge of analyze_and_update *)

\* the default of current_rules.get('version', '1.0')
DefaultVersion == <<"1", ".", "0">>

\* the description written when rules were added
UpdatedDescription(n) == [text |-> "Updated with n additional patterns", n |-> n]

ExistingPatternsBoth(rules) ==
    {rules[k].track_name.find :
        k \in {j \in 1..Len(rules) :
                  /\ "track_name" \in DOMAIN rules[j]
                  /\ "find" \in DOMAIN rules[j].track_name}}
    \cup
    {rules[k].album_name.find :
        k \in {j \in 1..Len(rules) :
                  /\ "album_name" \in DOMAIN rules[j]
                  /\ "find" \in DOMAIN rules[j].album_name}}

ExistingPatternsAlbum(rules) ==
    {rules[k].album_name.find :
        k \in {j \in 1..Len(rules) :
                  /\ "album_name" \in DOMAIN rules[j]
                  /\ "find" \in DOMAIN rules[j].album_name}}

\* the set built from the catalog's rules before the pass
ExistingPatterns(rules) ==
    {rules[k].track_name.find :
        k \in {j \in 1..Len(rules) :
                  /\ "track_name" \in DOMAIN rules[j]
                  /\ "find" \in DOMAIN rules[j].track_name}}

\* pattern_key of a candidate: <<>> is None, <<f>> is the string f
PatternKey(pattern) ==
    IF "track_name" \in DOMAIN pattern THEN <<pattern.track_name.find>>
    ELSE IF "album_name" \in DOMAIN pattern THEN <<pattern.album_name.find>>
    ELSE <<>>

\* Python truthiness of pattern_key: None and '' are falsy
Truthy(key) == key # <<>> /\ key[1] # ""

ShouldAddKeyPresent(key, existing) == key # <<>> /\ key[1] \notin existing

\* pattern_key and pattern_key not in existing_patterns
ShouldAdd(key, existing) == Truthy(key) /\ key[1] \notin existing

AppendRuleFront(rules, pattern) == <<pattern>> \o rules

\* current_rules['rules'].append(pattern)
AppendRule(rules, pattern) == Append(rules, pattern)

\* version_parts[1] exists and int(version_parts[1]) succeeds
VersionParses(version) ==
    LET version_parts == SplitDot(version)
    IN  Len(version_parts) >= 2 /\ IsIntLiteral(version_parts[2])

BumpedVersionByAdded(version) ==
    LET version_parts == SplitDot(version)
    IN  JoinDot([version_parts EXCEPT
                    ![2] = IntToStr(ParseInt(version_parts[2])
                                        + new_rules_added)])

BumpedVersionSame(version) == version

\* lines 182-184: version_parts[1] = str(int(version_parts[1]) + 1), joined
BumpedVersion(version) ==
    LET version_parts == SplitDot(version)
    IN  JoinDot([version_parts EXCEPT
                    ![2] = IntToStr(ParseInt(version_parts[2]) + 1)])

-----------------------------------------------------------------------------
(* Input domains.  Every catalog document carries 'rules' and every       *)
(* candidate pattern spec carries 'find': lines 157, 161, 170 and 172 read *)
(* them without a test.  'version' may be missing (line 181 has a default) *)
(* and a catalog rule's track_name may lack 'find' (line 162 tests it).    *)

Finds == {"", "a", "b"}

Names == {"n1", "n2"}

VerChars == {"0", "9", ".", "x", "-"}

Versions == SeqsUpTo(VerChars, MaxVerLen)

OrigDescription == [text |-> "original", n |-> 0]

TrackRule(n, f, r) == [name |-> n, track_name |-> [find |-> f, replace |-> r]]

AlbumRule(n, f, r) == [name |-> n, album_name |-> [find |-> f, replace |-> r]]

\* rules of a catalog file: one pattern spec each, a track_name possibly
\* without find (line 162 tests for it)
CatalogRules ==
    {TrackRule("n0", f, "$1") : f \in Finds}
    \cup {AlbumRule("n0", f, "$1") : f \in Finds \ {""}}
    \cup {[name |-> "n0", track_name |-> [replace |-> "$1"]]}

\* rule-shaped candidates: a track_name, an album_name, or neither
Candidates ==
    {TrackRule(n, f, "$2") : n \in Names, f \in Finds}
    \cup {AlbumRule(n, f, "$2") : n \in Names, f \in Finds}
    \cup {[name |-> n] : n \in Names}

Catalog(r, v) == [rules |-> r, description |-> OrigDescription, version |-> v]

CatalogNoVersion(r) == [rules |-> r, description |-> OrigDescription]

\* many rule lists and candidate lists, one version
MergeInput(f, c) ==
    /\ c \in SeqsUpTo(Candidates, MaxCands)
    /\ \E r \in SeqsUpTo(CatalogRules, MaxRules) :
           f = Catalog(r, <<"1", ".", "9">>)

\* many versions, a few rule lists and candidate lists
VersionInput(f, c) ==
    /\ c \in {<<>>,
              <<TrackRule("n1", "a", "$2")>>,
              <<TrackRule("n1", "b", "$2")>>,
              <<AlbumRule("n1", "a", "$2"), TrackRule("n2", "b", "$2")>>}
    /\ \E r \in {<<>>, <<TrackRule("n0", "a", "$1")>>} :
           \/ \E v \in Versions : f = Catalog(r, v)
           \/ f = CatalogNoVersion(r)

\* no file, or a file holding {}
NoCatalogInput(f, c) ==
    /\ c \in SeqsUpTo(Candidates, MaxCands)
    /\ f \in {NoFile, EmptyDoc}

-----------------------------------------------------------------------------
(* The program *)

Init ==
    /\ \/ MergeInput(file, additional_patterns)
       \/ VersionInput(file, additional_patterns)
       \/ NoCatalogInput(file, additional_patterns)
    /\ current_rules = None
    /\ existing_patterns = {}
    /\ idx = 0
    /\ new_rules_added = 0
    /\ added_names = <<>>
    /\ pc = "start"
    /\ loaded = None
    /\ added_idx = <<>>
    /\ loads = 0
    /\ saves = 0
    /\ run = 1

load_current_rules_default(f) ==
    IF f = NoFile
    THEN [rules |-> <<>>, description |-> OrigDescription, version |-> DefaultVersion]
    ELSE f

\* json.load of the file, None when the file is not found
load_current_rules(f) == IF f = NoFile THEN None ELSE f

\* lines 153-155: the load returned None or {} and the function returns
LoadAbort ==
    /\ pc = "start"
    /\ Falsy(load_current_rules(file))
    /\ current_rules' = load_current_rules(file)
    /\ loaded' = load_current_rules(file)
    /\ loads' = loads + 1
    /\ pc' = "returned"
    /\ UNCHANGED <<file, additional_patterns, existing_patterns, idx,
                   new_rules_added, added_names, added_idx, saves, run>>

\* lines 153-166: the load returned a catalog; build existing_patterns
LoadScan ==
    /\ pc = "start"
    /\ ~Falsy(load_current_rules(file))
    /\ current_rules' = load_current_rules(file)
    /\ loaded' = load_current_rules(file)
    /\ loads' = loads + 1
    /\ existing_patterns' = ExistingPatterns(load_current_rules(file).rules)
    /\ new_rules_added' = 0
    /\ idx' = 1
    /\ pc' = "loop"
    /\ UNCHANGED <<file, additional_patterns, added_names, added_idx, saves, run>>

\* lines 167-177, one iteration in which the candidate is appended
AppendCandidate ==
    /\ pc = "loop"
    /\ idx <= Len(additional_patterns)
    /\ ShouldAdd(PatternKey(additional_patterns[idx]), existing_patterns)
    /\ current_rules' =
           [current_rules EXCEPT
               !.rules = AppendRule(@, additional_patterns[idx])]
    /\ new_rules_added' = new_rules_added + 1
    /\ added_names' = Append(added_names, additional_patterns[idx].name)
    /\ added_idx' = Append(added_idx, idx)
    /\ idx' = idx + 1
    /\ UNCHANGED <<file, additional_patterns, existing_patterns, pc, loaded,
                   loads, saves, run>>

\* lines 167-174, one iteration in which the candidate is skipped
SkipCandidate ==
    /\ pc = "loop"
    /\ idx <= Len(additional_patterns)
    /\ ~ShouldAdd(PatternKey(additional_patterns[idx]), existing_patterns)
    /\ idx' = idx + 1
    /\ UNCHANGED <<file, additional_patterns, current_rules,
                   existing_patterns, new_rules_added, added_names, pc,
                   loaded, added_idx, loads, saves, run>>

NoNewRulesSaving ==
    /\ pc = "loop"
    /\ idx > Len(additional_patterns)
    /\ new_rules_added = 0
    /\ file' = current_rules
    /\ saves' = saves + 1
    /\ pc' = "done"
    /\ UNCHANGED <<additional_patterns, current_rules, existing_patterns,
                   idx, new_rules_added, added_names, loaded, added_idx,
                   loads, run>>

\* lines 179, 191-192: the loop is over and nothing was added
NoNewRules ==
    /\ pc = "loop"
    /\ idx > Len(additional_patterns)
    /\ new_rules_added = 0
    /\ pc' = "done"
    /\ UNCHANGED <<file, additional_patterns, current_rules,
                   existing_patterns, idx, new_rules_added, added_names,
                   loaded, added_idx, loads, saves, run>>

\* lines 179-186: the version is bumped and the description rewritten
UpdateVersion ==
    /\ pc = "loop"
    /\ idx > Len(additional_patterns)
    /\ new_rules_added > 0
    /\ VersionParses(DictGet(current_rules, "version", DefaultVersion))
    /\ current_rules' =
           DictSet(DictSet(current_rules, "version",
                       BumpedVersion(DictGet(current_rules, "version",
                                             DefaultVersion))),
                   "description", UpdatedDescription(new_rules_added))
    /\ pc' = "save"
    /\ UNCHANGED <<file, additional_patterns, existing_patterns, idx,
                   new_rules_added, added_names, loaded, added_idx, loads,
                   saves, run>>

VersionErrorFallback ==
    /\ pc = "loop"
    /\ idx > Len(additional_patterns)
    /\ new_rules_added > 0
    /\ ~VersionParses(DictGet(current_rules, "version", DefaultVersion))
    /\ current_rules' =
           DictSet(DictSet(current_rules, "version",
                       BumpedVersion(DefaultVersion)),
                   "description", UpdatedDescription(new_rules_added))
    /\ pc' = "save"
    /\ UNCHANGED <<file, additional_patterns, existing_patterns, idx,
                   new_rules_added, added_names, loaded, added_idx, loads,
                   saves, run>>

\* lines 182-183: version_parts[1] raises IndexError or int() ValueError
VersionError ==
    /\ pc = "loop"
    /\ idx > Len(additional_patterns)
    /\ new_rules_added > 0
    /\ ~VersionParses(DictGet(current_rules, "version", DefaultVersion))
    /\ pc' = "raised"
    /\ UNCHANGED <<file, additional_patterns, current_rules,
                   existing_patterns, idx, new_rules_added, added_names,
                   loaded, added_idx, loads, saves, run>>

\* lines 188-190 and 145-149: save_updated_rules(current_rules)
Save ==
    /\ pc = "save"
    /\ file' = current_rules
    /\ saves' = saves + 1
    /\ pc' = "done"
    /\ UNCHANGED <<additional_patterns, current_rules, existing_patterns,
                   idx, new_rules_added, added_names, loaded, added_idx,
                   loads, run>>

\* line 195: the script is run again, on the file the last run left
Rerun ==
    /\ pc = "done"
    /\ run < MaxRuns
    /\ run' = run + 1
    /\ pc' = "start"
    /\ current_rules' = None
    /\ existing_patterns' = {}
    /\ idx' = 0
    /\ new_rules_added' = 0
    /\ added_names' = <<>>
    /\ loaded' = None
    /\ added_idx' = <<>>
    /\ loads' = 0
    /\ saves' = 0
    /\ UNCHANGED <<file, additional_patterns>>

Next ==
    \/ LoadAbort
    \/ LoadScan
    \/ AppendCandidate
    \/ SkipCandidate
    \/ NoNewRules
    \/ UpdateVersion
    \/ VersionError
    \/ Save

Spec == Init /\ [][Next]_vars

NextRerun == Next \/ Rerun

SpecRerun == Init /\ [][NextRerun]_vars

-----------------------------------------------------------------------------
(* Notions the properties are stated in *)

Terminal == pc \in {"done", "returned", "raised"}

\* the run has a catalog in memory
Merging == pc \in {"loop", "save", "done", "raised"}

\* the loop over the candidates is over
PassOver == Merging /\ idx > Len(additional_patterns)

IsPrefix(s, t) == Len(s) <= Len(t) /\ SubSeq(t, 1, Len(s)) = s

\* what was appended to the rules of catalog `old` to give those of `new`
AppendedTail(old, new) == SubSeq(new.rules, Len(old.rules) + 1, Len(new.rules))

\* the track_name.find strings of the rules of a catalog
TrackFinds(catalog) ==
    {r.track_name.find :
        r \in {q \in Range(catalog.rules) :
                  "track_name" \in DOMAIN q /\ "find" \in DOMAIN q.track_name}}

AlbumFinds(catalog) ==
    {r.album_name.find :
        r \in {q \in Range(catalog.rules) :
                  "album_name" \in DOMAIN q /\ "find" \in DOMAIN q.album_name}}

HasVersion(catalog) == "version" \in DOMAIN catalog

SameVersion(old, new) ==
    /\ HasVersion(old) <=> HasVersion(new)
    /\ HasVersion(old) => old.version = new.version

Major(version) == SplitDot(version)[1]

Minor(version) == ParseInt(SplitDot(version)[2])

\* at least two dot-separated components, the first two of them integers
TwoIntegerComponents(version) ==
    /\ Len(SplitDot(version)) >= 2
    /\ IsIntLiteral(SplitDot(version)[1])
    /\ IsIntLiteral(SplitDot(version)[2])

\* the candidates processed so far
Processed == SubSeq(additional_patterns, 1, idx - 1)

NamesOf(rules) == [k \in 1..Len(rules) |-> rules[k].name]

-----------------------------------------------------------------------------
(* C1 *)

\* C1 (as claimed): a second run on the file the first run saved, with the
\* same candidates, adds nothing and leaves the catalog (rules, version,
\* description) as it was
C1_RerunAddsNothing ==
    (run >= 2 /\ Terminal) =>
        /\ new_rules_added = 0
        /\ file = loaded
        /\ current_rules = loaded

-----------------------------------------------------------------------------
(* C2 *)

\* C2: the rules of the catalog in memory and of the file are at every moment
\* the rules that were loaded, in order, followed by appended entries
C2_AppendOnly ==
    Merging =>
        /\ IsPrefix(loaded.rules, current_rules.rules)
        /\ IsPrefix(loaded.rules, file.rules)
        /\ Len(file.rules) >= Len(loaded.rules)

C2_Witness ==
    /\ pc = "done"
    /\ Len(loaded.rules) = 2
    /\ loaded.rules[1] # loaded.rules[2]
    /\ new_rules_added = 2
    /\ file.rules = loaded.rules \o AppendedTail(loaded, file)
    /\ Len(file.rules) = 4

-----------------------------------------------------------------------------
(* C3 *)

\* C3: when a run completes on a catalog that has a version, nothing added
\* leaves the version as it was, and anything added gives the minor component
\* plus exactly one and the same major component, in memory and in the file
C3_VersionMonotonic ==
    (pc = "done" /\ HasVersion(loaded)) =>
        IF new_rules_added = 0
        THEN /\ SameVersion(loaded, current_rules)
             /\ SameVersion(loaded, file)
        ELSE /\ HasVersion(current_rules)
             /\ Minor(current_rules.version) = Minor(loaded.version) + 1
             /\ Major(current_rules.version) = Major(loaded.version)
             /\ Len(SplitDot(current_rules.version)) = Len(SplitDot(loaded.version))
             /\ file.version = current_rules.version

C3_Witness ==
    /\ pc = "done"
    /\ new_rules_added = 2
    /\ HasVersion(loaded)
    /\ loaded.version = <<"9", ".", "9">>
    /\ file.version = <<"9", ".", "1", "0">>

-----------------------------------------------------------------------------
(* C4 *)

\* C4: a candidate whose track_name.find is the track_name.find of a rule of
\* the loaded catalog is never appended, in memory or in the file
C4_TrackDuplicateNeverAppended ==
    Merging =>
        \A j \in 1..Len(additional_patterns) :
            LET c == additional_patterns[j]
            IN  ("track_name" \in DOMAIN c
                    /\ c.track_name.find \in TrackFinds(loaded)) =>
                    /\ j \notin Range(added_idx)
                    /\ c \notin Range(AppendedTail(loaded, current_rules))
                    /\ c \notin Range(AppendedTail(loaded, file))

C4_Witness ==
    /\ pc = "done"
    /\ Len(additional_patterns) = 2
    /\ "track_name" \in DOMAIN additional_patterns[1]
    /\ additional_patterns[1].track_name.find \in TrackFinds(loaded)
    /\ additional_patterns[1].track_name.find # ""
    /\ added_idx = <<2>>
    /\ saves = 1

-----------------------------------------------------------------------------
(* C5 *)

\* C5 (as claimed): one load, at most one save, which comes after the appends
\* and the update; save is invoked if and only if a rule was added in the run
C5_SaveIffAdded ==
    /\ loads <= 1
    /\ saves <= 1
    /\ Terminal => (saves = 1 <=> new_rules_added > 0)

\* C5 (amended): one load, at most one save, which comes after all the appends
\* and the version and description update; save is invoked if and only if a
\* rule was added and the version update did not raise
C5_SaveIffAddedAndVersionParsed ==
    /\ loads <= 1
    /\ saves <= 1
    /\ pc # "start" => loads = 1
    /\ saves = 1 =>
          /\ PassOver
          /\ file = current_rules
          /\ current_rules.description = UpdatedDescription(new_rules_added)
          /\ ~SameVersion(loaded, current_rules)
    /\ Terminal => (saves = 1 <=> (new_rules_added > 0 /\ pc # "raised"))
    /\ (Terminal /\ saves = 0 /\ pc # "returned") => file = loaded

C5_Witness ==
    /\ pc = "done"
    /\ saves = 1
    /\ new_rules_added = 2
    /\ file # loaded

-----------------------------------------------------------------------------
(* C6 *)

\* C6 (as claimed): when a candidate is new and the version of the catalog is
\* not two or more dot-separated integer components, the run raises, no
\* fallback version is used and nothing is saved
C6_MalformedVersionFatal ==
    (Terminal /\ Merging /\ new_rules_added > 0
        /\ ~(HasVersion(loaded) /\ TwoIntegerComponents(loaded.version))) =>
        /\ pc = "raised"
        /\ saves = 0
        /\ file = loaded

\* C6 (amended): when a candidate is new and the catalog has a version with
\* fewer than two dot-separated components or a second component that is no
\* integer, the run raises and nothing is saved; the first component is not
\* examined, and a catalog without a version is given the version after 1.0
C6_MalformedMinorFatal ==
    (Terminal /\ Merging /\ new_rules_added > 0) =>
        /\ (HasVersion(loaded)
               /\ (Len(SplitDot(loaded.version)) < 2
                      \/ ~IsIntLiteral(SplitDot(loaded.version)[2]))) =>
               (pc = "raised" /\ saves = 0 /\ file = loaded)
        /\ (HasVersion(loaded)
               /\ Len(SplitDot(loaded.version)) >= 2
               /\ IsIntLiteral(SplitDot(loaded.version)[2])) =>
               (pc = "done" /\ saves = 1
                   /\ Major(file.version) = Major(loaded.version))
        /\ ~HasVersion(loaded) =>
               (pc = "done" /\ saves = 1 /\ file.version = <<"1", ".", "1">>)

C6_Witness ==
    /\ pc = "raised"
    /\ new_rules_added > 0
    /\ HasVersion(loaded)
    /\ loaded.version = <<"9">>
    /\ saves = 0

-----------------------------------------------------------------------------
(* C7 *)

\* C7 (as claimed): in every outcome of a run, the raising one included, the
\* catalog in memory has an appended rule and a changed version, or neither
C7_AppendAndVersionAtomic ==
    (Terminal /\ Merging) =>
        (Len(current_rules.rules) > Len(loaded.rules)
            <=> ~SameVersion(loaded, current_rules))

\* C7 (amended): the version is never changed without an appended rule; a run
\* that completes, and the file at every moment, has an appended rule and the
\* version changed, or neither; a run that raises on the version leaves the
\* appended rules in memory with the version as loaded, and saves nothing
C7_AtomicUnlessRaised ==
    Merging =>
        /\ ~SameVersion(loaded, current_rules) =>
               Len(current_rules.rules) > Len(loaded.rules)
        /\ Len(file.rules) > Len(loaded.rules) <=> ~SameVersion(loaded, file)
        /\ pc = "done" =>
               (Len(current_rules.rules) > Len(loaded.rules)
                   <=> ~SameVersion(loaded, current_rules))
        /\ pc = "raised" =>
               /\ Len(current_rules.rules) > Len(loaded.rules)
               /\ SameVersion(loaded, current_rules)
               /\ file = loaded

C7_Witness ==
    /\ pc = "raised"
    /\ Len(current_rules.rules) = Len(loaded.rules) + 1
    /\ Len(loaded.rules) = 1
    /\ SameVersion(loaded, current_rules)
    /\ file = loaded

-----------------------------------------------------------------------------
(* C8 *)

\* the key of a candidate as the claim describes it: present, not in the set
C8_NewByKey(c) ==
    \/ "track_name" \in DOMAIN c /\ c.track_name.find \notin TrackFinds(loaded)
    \/ /\ "track_name" \notin DOMAIN c
       /\ "album_name" \in DOMAIN c
       /\ c.album_name.find \notin TrackFinds(loaded)

\* the same, and the key is not the empty string
C8_NewByNonEmptyKey(c) ==
    \/ /\ "track_name" \in DOMAIN c
       /\ c.track_name.find # ""
       /\ c.track_name.find \notin TrackFinds(loaded)
    \/ /\ "track_name" \notin DOMAIN c
       /\ "album_name" \in DOMAIN c
       /\ c.album_name.find # ""
       /\ c.album_name.find \notin TrackFinds(loaded)

\* C8 (as claimed): the appended entries are exactly the processed candidates
\* whose key exists and is not in the set of the loaded catalog, unchanged and
\* in order; the count and the names printed are theirs
C8_ExactTail ==
    Merging =>
        /\ AppendedTail(loaded, current_rules) = SelectSeq(Processed, C8_NewByKey)
        /\ new_rules_added = Len(SelectSeq(Processed, C8_NewByKey))
        /\ added_names = NamesOf(SelectSeq(Processed, C8_NewByKey))

\* C8 (amended): the appended entries are exactly the processed candidates
\* whose key exists, is not the empty string and is not in the set of the
\* loaded catalog, unchanged and in order; the count and the names are theirs
C8_ExactTailNonEmptyKey ==
    Merging =>
        /\ AppendedTail(loaded, current_rules)
               = SelectSeq(Processed, C8_NewByNonEmptyKey)
        /\ new_rules_added = Len(SelectSeq(Processed, C8_NewByNonEmptyKey))
        /\ added_names = NamesOf(SelectSeq(Processed, C8_NewByNonEmptyKey))
        /\ saves = 1 =>
               AppendedTail(loaded, file)
                   = SelectSeq(additional_patterns, C8_NewByNonEmptyKey)

\* two candidates with the same new key, both appended after an existing rule
C8_Witness ==
    /\ pc = "done"
    /\ Len(additional_patterns) = 2
    /\ PatternKey(additional_patterns[1]) = PatternKey(additional_patterns[2])
    /\ additional_patterns[1] # additional_patterns[2]
    /\ Len(loaded.rules) = 1
    /\ file.rules = loaded.rules \o additional_patterns
    /\ added_names = <<"n2", "n1">>
    /\ new_rules_added = 2

-----------------------------------------------------------------------------
(* C10 *)

\* C10 (as claimed): the set holds exactly the track_name.find strings of the
\* loaded rules; an album_name candidate is skipped if and only if its find is
\* one of them
C10_AlbumSkippedIffTrackFind ==
    Merging =>
        /\ existing_patterns = TrackFinds(loaded)
        /\ \A j \in 1..(idx - 1) :
               LET c == additional_patterns[j]
               IN  ("album_name" \in DOMAIN c /\ "track_name" \notin DOMAIN c) =>
                       (j \notin Range(added_idx)
                           <=> c.album_name.find \in TrackFinds(loaded))

\* C10 (amended): the set holds exactly the track_name.find strings of the
\* loaded rules; an album_name candidate is skipped if and only if its find is
\* one of them or is the empty string, whatever the album_name rules are
C10_AlbumSkippedIffTrackFindOrEmpty ==
    Merging =>
        /\ existing_patterns = TrackFinds(loaded)
        /\ \A j \in 1..(idx - 1) :
               LET c == additional_patterns[j]
               IN  ("album_name" \in DOMAIN c /\ "track_name" \notin DOMAIN c) =>
                       /\ j \notin Range(added_idx)
                              <=> (c.album_name.find \in TrackFinds(loaded)
                                      \/ c.album_name.find = "")
                       /\ j \in Range(added_idx)
                              <=> c \in Range(AppendedTail(loaded, current_rules))

\* an album candidate appended although an album rule has the same find
C10_Witness ==
    /\ pc = "done"
    /\ \E j \in Range(added_idx) :
           /\ "album_name" \in DOMAIN additional_patterns[j]
           /\ additional_patterns[j].album_name.find \in AlbumFinds(loaded)
           /\ additional_patterns[j] \in Range(AppendedTail(loaded, file))
    /\ TrackFinds(loaded) # {}

-----------------------------------------------------------------------------
(* C9 *)

\* C9: when the file is not found the run returns at once: no key set is
\* built, no candidate is examined or appended, no version is computed, save
\* is not invoked and there is still no file
C9_NotFoundAborts ==
    (file = NoFile /\ pc # "start") =>
        /\ pc = "returned"
        /\ current_rules = None
        /\ existing_patterns = {}
        /\ idx = 0
        /\ new_rules_added = 0
        /\ added_names = <<>>
        /\ saves = 0

C9_Witness ==
    /\ pc = "returned"
    /\ file = NoFile
    /\ loads = 1
    /\ Len(additional_patterns) = 2
    /\ \A j \in 1..2 : Truthy(PatternKey(additional_patterns[j]))

TypeOK ==
    /\ pc \in {"start", "loop", "save", "done", "returned", "raised"}
    /\ idx \in 0..(MaxCands + 1)
    /\ new_rules_added \in 0..MaxCands
    /\ loads \in 0..1
    /\ saves \in 0..1
    /\ run \in 1..MaxRuns

====
